---- MODULE Spec2Model ----
(***************************************************************************)
(* A model of the device session core of adb-tv-tool:                      *)
(*   - utils/device_manager.py : DeviceManager, the singleton registry of  *)
(*     the active device, with its listener list;                          *)
(*   - utils/adb_manager.py    : ADBManager.run_adb_command, one bridge    *)
(*     invocation with timeout and structured result.                      *)
(***************************************************************************)
EXTENDS Integers, Sequences, FiniteSets, TLC

VARIABLES
    instance,          \* DeviceManager._instance
    inst_current,      \* per instance: the instance attribute _current_device
    device_listeners,  \* DeviceManager._device_listeners (class-level list)
    frame,             \* per thread: the set/clear call it is executing
    calls,             \* history: one record per set/clear call, in start order
    log,               \* history: the listener invocations, in order
    lastReg,           \* history: what the last add/remove_listener since the last round found
    regOrder           \* history: the registered listeners, in the order they registered


VARIABLES
    platform,          \* the host the program runs on (fixed for a run)
    ex,                \* the run_adb_command invocation: where it is, its arguments
    child,             \* the child process of that invocation
    result             \* what the invocation returned to its caller

VARIABLES
    env,               \* the host's file system and build: where an adb binary can be found
    adb_manager,       \* the module global _adb_manager (NoManager: None)
    dirs,              \* the directories mkdtemp created, in creation order
    getter,            \* per thread: its get_adb_manager() call and what it got
    spawned,           \* the last attempt to start the bridge
    app,               \* the application: running or closed
    resolvedSince      \* history: successful resolutions since the last cleanup_adb_manager

VARIABLES
    worker,            \* the QThread a page started (self.scanner, self.install_worker)
    orphan,            \* the child of a terminated worker's command
    unreferenced,      \* running scanners the page no longer refers to
    ui                 \* the connect handler of the UI thread: where it is, what it saw

VARIABLES
    iw,                \* the InstallWorker of the install page
    inst,              \* the last install attempt and what was reported for it
    shot,              \* the last screen capture: the bytes received, the payload kept
    lst,               \* the last `devices` listing checked for a target
    window,            \* SimplifiedMainWindow: current_device, the two buttons, open or closed
    cb                 \* history: what the listeners did to the registry from inside a round

regvars == <<instance, inst_current, device_listeners, frame, calls, log, lastReg,
            regOrder>>
exvars == <<ex, child, result>>
resvars == <<env, adb_manager, dirs, getter, spawned, app, resolvedSince>>
wkvars == <<worker, orphan, unreferenced>>
uivars == <<ui>>
toolvars == <<iw, inst, shot, lst, window, cb>>
appvars == <<resvars, wkvars, uivars, toolvars>>
vars == <<regvars, platform, exvars, appvars>>

----------------------------------------------------------------------------
(* Values *)

None == "None"            \* Python's None: the empty slot
Unset == "Unset"          \* an instance with no attribute of its own
Devices == {"A", "B"}     \* DeviceInfo values, told apart by serial
WorkerDevice == [w1 |-> "X", w2 |-> "Y", w3 |-> "Z"]
Listeners == {"l1", "l2"}
Main == "main"
Workers == {"w1", "w2", "w3"}
Threads == {Main} \cup Workers
Instances == {"dm1", "dm2"}

MaxCalls == 2             \* bound on the number of set/clear calls of a run

----------------------------------------------------------------------------
(* DeviceManager: the singleton and its slot *)

\* class attribute `_current_device: Optional[DeviceInfo] = None`
ClassCurrentDevice == None

\* module level: device_manager = DeviceManager()
device_manager == "dm1"

\* a constructor that forgets the singleton check and builds a new object
DeviceManager_new_fresh == "dm2"

\* DeviceManager.__new__: the one instance, created on first use
DeviceManager_new == IF instance = None THEN "dm1" ELSE instance

\* the two ways callers reach the registry
HandleKinds == {"module", "ctor"}
Handle(kind) == IF kind = "module" THEN device_manager ELSE DeviceManager_new

\* get_current_device: self._current_device (instance attribute, else class attribute)
get_current_device(h) ==
    IF inst_current[h] = Unset THEN ClassCurrentDevice ELSE inst_current[h]

\* set_current_device, line 37: self._current_device = device_info
AssignSlot(h, d) == [inst_current EXCEPT ![h] = d]

\* a clear that leaves the slot as it is
ClearSlot_keep(h) == inst_current

\* clear_current_device, line 53: self._current_device = None
ClearSlot(h) == [inst_current EXCEPT ![h] = None]

----------------------------------------------------------------------------
(* The listener list *)

Contains(s, l) == \E i \in 1..Len(s) : s[i] = l

\* list.remove(x): drops the first occurrence
RemoveFirst(s, l) ==
    LET i == CHOOSE j \in 1..Len(s) : s[j] = l /\ \A k \in 1..(j-1) : s[k] # l
    IN  SubSeq(s, 1, i-1) \o SubSeq(s, i+1, Len(s))

\* a registration that appends without the membership test
add_listener_nocheck(s, l) == Append(s, l)

\* add_listener: if listener not in list: append
add_listener(s, l) == IF Contains(s, l) THEN s ELSE Append(s, l)

\* remove_listener: if listener in list: remove
remove_listener(s, l) == IF Contains(s, l) THEN RemoveFirst(s, l) ELSE s

----------------------------------------------------------------------------
(* One set/clear call: the assignment, then the notification loop *)

Idle == [pc |-> "idle", op |-> "none", dev |-> None, i |-> 0, id |-> 0, h |-> None]

\* a loop that passes the empty value whatever the call
NotifyArg_none(f) == None

\* the value the loop passes to a listener: device_info (set), None (clear)
NotifyArg(f) == IF f.op = "set" THEN f.dev ELSE None

\* an iterator that steps over every other listener
Advance_skip(f) == [f EXCEPT !.i = f.i + 2]

\* the for loop's iterator moves to the next index
Advance(f) == [f EXCEPT !.i = f.i + 1]

\* a loop without the try/except: the exception leaves the call
OnListenerRaise_propagate(f) == [f EXCEPT !.pc = "unwind"]

\* except Exception: logger.error(...) and the loop goes on
OnListenerRaise(f) == Advance(f)

\* a listener either returns or raises
Outcomes == {"ok", "raise"}

InitRegistry ==
    /\ instance = device_manager          \* line 77 ran at import
    /\ inst_current = [h \in Instances |-> Unset]
    /\ device_listeners = <<>>
    /\ frame = [t \in Threads |-> Idle]
    /\ calls = <<>>
    /\ log = <<>>
    /\ lastReg = "none"
    /\ regOrder = <<>>

\* set_current_device (also through the module-level function): lines 35-38
SetCurrentDevice(t, kind, d) ==
    /\ frame[t].pc = "idle"
    /\ LET h == Handle(kind) IN
        /\ inst_current' = AssignSlot(h, d)
        /\ frame' = [frame EXCEPT ![t] =
              [pc |-> "loop", op |-> "set", dev |-> d, i |-> 1,
               id |-> Len(calls) + 1, h |-> h]]
    /\ calls' = Append(calls, [op |-> "set", dev |-> d, t |-> t, h |-> Handle(kind),
                               prev |-> get_current_device(Handle(kind)),
                               snap |-> device_listeners, order |-> regOrder,
                               done |-> FALSE,
                               exc |-> FALSE, ret |-> None])
    /\ lastReg' = "none"
    /\ UNCHANGED <<instance, device_listeners, log, regOrder, platform, exvars>>

\* clear_current_device: lines 51-54
ClearCurrentDevice(t, kind) ==
    /\ frame[t].pc = "idle"
    /\ LET h == Handle(kind) IN
        /\ inst_current' = ClearSlot(h)
        /\ frame' = [frame EXCEPT ![t] =
              [pc |-> "loop", op |-> "clear", dev |-> None, i |-> 1,
               id |-> Len(calls) + 1, h |-> h]]
    /\ calls' = Append(calls, [op |-> "clear", dev |-> None, t |-> t, h |-> Handle(kind),
                               prev |-> get_current_device(Handle(kind)),
                               snap |-> device_listeners, order |-> regOrder,
                               done |-> FALSE,
                               exc |-> FALSE, ret |-> None])
    /\ lastReg' = "none"
    /\ UNCHANGED <<instance, device_listeners, log, regOrder, platform, exvars>>

\* one iteration of `for listener in self._device_listeners`: lines 41-45, 57-61
NotifyListener(t) ==
    LET f == frame[t] IN
    /\ f.pc = "loop"
    /\ f.i <= Len(device_listeners)
    /\ \E o \in Outcomes :
          /\ log' = Append(log, [id |-> f.id, l |-> device_listeners[f.i],
                                 v |-> NotifyArg(f), o |-> o])
          /\ frame' = [frame EXCEPT ![t] =
                IF o = "raise" THEN OnListenerRaise(f) ELSE Advance(f)]
    /\ UNCHANGED <<instance, inst_current, device_listeners, calls, lastReg, regOrder,
                   platform, exvars>>

\* the loop is exhausted (or an exception leaves the call): back to the caller
Return(t) ==
    LET f == frame[t] IN
    /\ \/ f.pc = "loop" /\ f.i > Len(device_listeners)
       \/ f.pc = "unwind"
    /\ calls' = [calls EXCEPT ![f.id] =
          [@ EXCEPT !.done = TRUE, !.exc = (f.pc = "unwind"),
                    !.ret = get_current_device(f.h)]]
    /\ frame' = [frame EXCEPT ![t] = Idle]
    /\ UNCHANGED <<instance, inst_current, device_listeners, log, lastReg, regOrder,
                   platform, exvars>>

\* add_listener: lines 63-67
AddListener(t, l) ==
    /\ frame[t].pc = "idle"
    /\ device_listeners' = add_listener(device_listeners, l)
    /\ lastReg' = IF Contains(device_listeners, l) THEN "add_registered" ELSE "add"
    /\ regOrder' = IF \E i \in 1..Len(regOrder) : regOrder[i] = l
                   THEN regOrder ELSE regOrder \o <<l>>
    /\ UNCHANGED <<instance, inst_current, frame, calls, log, platform, exvars>>

\* remove_listener: lines 69-73
RemoveListener(t, l) ==
    /\ frame[t].pc = "idle"
    /\ device_listeners' = remove_listener(device_listeners, l)
    /\ lastReg' = IF Contains(device_listeners, l) THEN "remove" ELSE "remove_unregistered"
    /\ regOrder' = SelectSeq(regOrder, LAMBDA x : x # l)
    /\ UNCHANGED <<instance, inst_current, frame, calls, log, platform, exvars>>

----------------------------------------------------------------------------
(* ADBManager.run_adb_command *)

Platforms == {"win32", "posix"}
Timeouts == {5, 10, 30}               \* the timeouts the call sites pass, and the default
Commands == {"devices", "connect", "install"}
ExitCodes == {0, 1}
\* what the child wrote: nothing, text, or bytes that are no text in the locale's encoding
ChildOutputs == {"empty", "text", "binary"}
SpawnErrors == {"FileNotFoundError", "PermissionError"}

NoResult == [absent |-> TRUE]
NoChild == [st |-> "none"]
ExIdle == [pc |-> "idle", args |-> "none", timeout |-> 0, text |-> TRUE, outcome |-> "none"]

\* subprocess.run(capture_output=True, text=text): the captured stream.
\* text=False gives the bytes. text=True decodes strictly in the locale's encoding:
\* on POSIX communicate() raises UnicodeDecodeError; on Windows the reader thread
\* dies and the stream is None.
Capture(text, plat, out) ==
    IF ~text THEN [type |-> "bytes", data |-> out]
    ELSE IF out = "binary"
         THEN IF plat = "posix" THEN [type |-> "UnicodeDecodeError"]
                                ELSE [type |-> "NoneType"]
         ELSE [type |-> "str", data |-> out]

\* an `or ""` applied in both modes: an empty stream of a binary call becomes a str
OrEmpty_str(text, cap) ==
    IF cap.type = "NoneType" \/ cap.data = "empty"
    THEN [type |-> "str", data |-> "empty"]
    ELSE cap

\* lines 200-207: `result.stdout or ""` / `result.stdout or b""`
OrEmpty(text, cap) ==
    IF cap.type = "NoneType" \/ cap.data = "empty"
    THEN [type |-> (IF text THEN "str" ELSE "bytes"), data |-> "empty"]
    ELSE cap

\* lines 234-239: the result of a child that ran to its end
CompletedResult(rc, out, err) ==
    [success |-> (rc = 0), returncode |-> rc, stdout |-> out, stderr |-> err]

\* a timeout handler that forgets the duration
TimeoutResult_noduration(timeout) ==
    [success |-> FALSE, error |-> [kind |-> "timeout"]]

\* lines 241-245: except subprocess.TimeoutExpired
TimeoutResult(timeout) ==
    [success |-> FALSE, error |-> [kind |-> "timeout", seconds |-> timeout]]

\* a function that catches only the timeout: other exceptions leave it
OnException_propagate(e) == [pc |-> "raised", result |-> NoResult]

\* lines 246-250: except Exception: return {'success': False, 'error': str(e)}
OnException(e) ==
    [pc |-> "returned", result |-> [success |-> FALSE, error |-> [kind |-> e]]]

\* subprocess.run on TimeoutExpired: process.kill(), then wait
ChildOnTimeout == [st |-> "killed"]

InitExecutor ==
    /\ ex = ExIdle
    /\ child = NoChild
    /\ result = NoResult

----------------------------------------------------------------------------
(* ADBManager: finding and staging the adb binary *)

MaxDirs == 2
NoManager == 0                      \* _adb_manager = None
Getters == {Main, "w1"}             \* the UI thread and a scanner thread
DirStates == {"absent", "empty", "binary"}   \* no directory / directory without adb.exe / with adb.exe
Locations == {"meipass", "edrive", "cwd", "exedir", "path"}

\* sys._MEIPASS exists in a frozen build only; shutil.which finds a file or nothing
Envs ==
    {e \in [frozen : BOOLEAN, meipass : DirStates, edrive : DirStates, cwd : DirStates,
            exedir : DirStates, path : {"absent", "binary"}] :
        ~e.frozen => e.meipass = "absent"}

Staged(src) == [ok |-> TRUE, src |-> src]
NotStaged == [ok |-> FALSE, src |-> "failed"]

\* lines 137-178: cwd/adb, then <exe dir>/adb, then PATH; copy2 of a missing adb.exe
\* raises and the handler returns False
try_find_adb_alternative(e) ==
    IF e.cwd = "binary" THEN Staged("cwd")
    ELSE IF e.cwd = "empty" THEN NotStaged
    ELSE IF e.exedir = "binary" THEN Staged("exedir")
    ELSE IF e.exedir = "empty" THEN NotStaged
    ELSE IF e.path = "binary" THEN Staged("path")
    ELSE NotStaged

\* lines 93-135: copy sys._MEIPASS/adb/*, then look for adb.exe in the temp directory
extract_adb_from_resources(e) ==
    IF e.meipass = "binary" THEN Staged("meipass")
    ELSE try_find_adb_alternative(e)

\* lines 72-91 followed by lines 46-53: a missing E:/ADB raises out of
\* setup_builtin_adb; an E:/ADB without adb.exe leaves a path that does not exist,
\* and the alternatives are tried
copy_adb_from_e_drive(e) ==
    IF e.edrive = "absent" THEN NotStaged
    ELSE IF e.edrive = "binary" THEN Staged("edrive")
    ELSE try_find_adb_alternative(e)

\* lines 26-61
setup_builtin_adb(e) ==
    IF e.frozen
    THEN LET r == extract_adb_from_resources(e) IN
         IF r.ok THEN r ELSE copy_adb_from_e_drive(e)
    ELSE copy_adb_from_e_drive(e)

GetterIdle == [pc |-> "idle", dir |-> 0, ret |-> NoManager, raised |-> FALSE]
NotSpawned == [by |-> "none", started |-> FALSE, resolved |-> FALSE]

\* the staged directories of the resolutions that succeeded
StagedDirs == {i \in DOMAIN dirs : dirs[i].staged \notin {"pending", "failed"}}

InitResolver ==
    /\ adb_manager = NoManager        \* line 272
    /\ dirs = <<>>
    /\ getter = [t \in Getters |-> GetterIdle]
    /\ spawned = NotSpawned
    /\ app = "running"
    /\ resolvedSince = 0

\* get_adb_manager, lines 275-280, up to mkdtemp (line 30) of a first construction
GetAdbManager(t) ==
    /\ app = "running"
    /\ getter[t].pc = "idle"
    /\ IF adb_manager # NoManager
       THEN /\ getter' = [getter EXCEPT ![t] = [GetterIdle EXCEPT !.ret = adb_manager]]
            /\ dirs' = dirs
       ELSE /\ Len(dirs) < MaxDirs
            /\ dirs' = Append(dirs, [exists |-> TRUE, staged |-> "pending"])
            /\ getter' = [getter EXCEPT ![t] = [pc |-> "constructing", dir |-> Len(dirs) + 1,
                                                ret |-> NoManager, raised |-> FALSE]]
    /\ UNCHANGED <<env, adb_manager, spawned, app, resolvedSince>>

\* the rest of ADBManager() and the assignment of line 279
FinishSetup(t) ==
    /\ app = "running"
    /\ getter[t].pc = "constructing"
    /\ LET r == setup_builtin_adb(env)
           d == getter[t].dir IN
       /\ dirs' = [dirs EXCEPT ![d].staged = r.src]
       /\ IF r.ok
          THEN /\ adb_manager' = d
               /\ resolvedSince' = resolvedSince + 1
               /\ getter' = [getter EXCEPT ![t] = [GetterIdle EXCEPT !.ret = d]]
          ELSE /\ getter' = [getter EXCEPT ![t] = [GetterIdle EXCEPT !.raised = TRUE]]
               /\ UNCHANGED <<adb_manager, resolvedSince>>
    /\ UNCHANGED <<env, spawned, app>>

\* cleanup_adb_manager, lines 283-288, with ADBManager.cleanup, lines 261-268
CleanupAdbManager ==
    /\ app = "running"
    /\ adb_manager # NoManager
    /\ dirs' = [dirs EXCEPT ![adb_manager].exists = FALSE]
    /\ adb_manager' = NoManager
    /\ resolvedSince' = 0
    /\ UNCHANGED <<env, getter, spawned, app>>

\* a caller that holds a manager runs a command: temp_dir/adb.exe is started
RunViaManager(t) ==
    /\ app = "running"
    /\ getter[t].pc = "idle" /\ getter[t].ret # NoManager
    /\ spawned' = [by |-> "run_adb_command", started |-> dirs[getter[t].ret].exists,
                   resolved |-> TRUE]
    /\ UNCHANGED <<env, adb_manager, dirs, getter, app, resolvedSince>>

\* InstallWorker.install_apk: subprocess.run(["adb", ...]), found through PATH, which
\* holds the staged directories (line 56 of adb_manager.py) before the system's
InstallApk ==
    /\ app = "running"
    /\ spawned' = [by |-> "install_apk",
                   started |-> \/ \E i \in StagedDirs : dirs[i].exists
                               \/ env.path = "binary",
                   resolved |-> StagedDirs # {}]
    /\ UNCHANGED <<env, adb_manager, dirs, getter, app, resolvedSince>>

\* closeEvent of the main windows: the pages are cleaned up, the registry is cleared
CloseEvent ==
    /\ app = "running"
    /\ app' = "closed"
    /\ UNCHANGED <<env, adb_manager, dirs, getter, spawned, resolvedSince>>

NoInstallWorker ==
    [pc |-> "none", n |-> 0, i |-> 0, attempts |-> <<>>, results |-> <<>>,
     finished |-> 0, finishedOk |-> FALSE]
NoInstall == [by |-> "none"]
NoShot == [by |-> "none"]
NoListing == [checked |-> FALSE]
\* __init__ line 32, setup_ui lines 111-157: no device, connect enabled, disconnect disabled
WinInit ==
    [current_device |-> None, connect_button |-> TRUE, disconnect_button |-> FALSE,
     open |-> TRUE]

InitTools ==
    /\ iw = NoInstallWorker
    /\ inst = NoInstall
    /\ shot = NoShot
    /\ lst = NoListing
    /\ window = WinInit
    /\ cb = <<>>

NoWorker == [st |-> "none"]
UiIdle ==
    [pc |-> "idle", win |-> "none", serial |-> None, type |-> "none", connected |-> FALSE,
     calls0 |-> 0, log0 |-> 0, cur0 |-> None]

InitPages ==
    /\ worker = NoWorker
    /\ orphan = "none"
    /\ unreferenced = 0
    /\ ui = UiIdle

\* any host, any build
InitRes ==
    /\ InitRegistry
    /\ platform = "win32"
    /\ InitExecutor
    /\ env \in Envs
    /\ InitResolver
    /\ InitPages
    /\ InitTools

NextRes ==
    \/ \E t \in Getters : GetAdbManager(t) /\ UNCHANGED <<regvars, platform, exvars, wkvars, uivars, toolvars>>
    \/ \E t \in Getters : FinishSetup(t) /\ UNCHANGED <<regvars, platform, exvars, wkvars, uivars, toolvars>>
    \/ CleanupAdbManager /\ UNCHANGED <<regvars, platform, exvars, wkvars, uivars, toolvars>>
    \/ \E t \in Getters : RunViaManager(t) /\ UNCHANGED <<regvars, platform, exvars, wkvars, uivars, toolvars>>
    \/ InstallApk /\ UNCHANGED <<regvars, platform, exvars, wkvars, uivars, toolvars>>
    \/ CloseEvent /\ UNCHANGED <<regvars, platform, exvars, wkvars, uivars, toolvars>>

SpecRes == InitRes /\ [][NextRes]_vars

\* the host the developers run the tool on: a source checkout with E:/ADB
DevEnv ==
    [frozen |-> FALSE, meipass |-> "absent", edrive |-> "binary", cwd |-> "absent",
     exedir |-> "absent", path |-> "absent"]

\* the registry specifications run on the host the tool is built for
Init ==
    /\ InitRegistry
    /\ platform = "win32"
    /\ InitExecutor
    /\ env = DevEnv
    /\ InitResolver
    /\ InitPages
    /\ InitTools

InitExec ==
    /\ InitRegistry
    /\ platform \in Platforms
    /\ InitExecutor
    /\ env = DevEnv
    /\ InitResolver
    /\ InitPages
    /\ InitTools

\* run_adb_command up to the spawn: lines 182-198.
\* sinkOk: whether the console takes the diagnostic lines. When it does not, the
\* first print raises inside the try, and the print of the handler raises again.
RunAdbCommand(args, timeout, text, sinkOk) ==
    /\ ex.pc # "waiting"
    /\ LET e == [pc |-> "waiting", args |-> args, timeout |-> timeout,
                 text |-> text, outcome |-> "none"] IN
       IF ~sinkOk
       THEN /\ ex' = [e EXCEPT !.pc = "raised", !.outcome = "sink"]
            /\ child' = NoChild
            /\ result' = NoResult
       ELSE \/ /\ ex' = e
               /\ child' = [st |-> "running"]
               /\ result' = NoResult
            \/ \E err \in SpawnErrors :
                 LET h == OnException(err) IN
                 /\ ex' = [e EXCEPT !.pc = h.pc, !.outcome = "spawn"]
                 /\ child' = NoChild
                 /\ result' = h.result
    /\ UNCHANGED <<regvars, platform>>

\* the child exits in time: lines 192-239
ChildExits(rc, out, err) ==
    /\ ex.pc = "waiting"
    /\ child' = [st |-> "exited", rc |-> rc, out |-> out, err |-> err]
    /\ LET cap == Capture(ex.text, platform, out)
           cap2 == Capture(ex.text, platform, err) IN
       IF cap.type = "UnicodeDecodeError" \/ cap2.type = "UnicodeDecodeError"
       THEN LET h == OnException("UnicodeDecodeError") IN
            /\ ex' = [ex EXCEPT !.pc = h.pc, !.outcome = "decode"]
            /\ result' = h.result
       ELSE /\ ex' = [ex EXCEPT !.pc = "returned", !.outcome = "exit"]
            /\ result' = CompletedResult(rc, OrEmpty(ex.text, cap), OrEmpty(ex.text, cap2))
    /\ UNCHANGED <<regvars, platform>>

\* the child does not exit within `timeout`: lines 192-198, 241-245
TimeoutExpires ==
    /\ ex.pc = "waiting"
    /\ child' = ChildOnTimeout
    /\ ex' = [ex EXCEPT !.pc = "returned", !.outcome = "timeout"]
    /\ result' = TimeoutResult(ex.timeout)
    /\ UNCHANGED <<regvars, platform>>

NextExec ==
    \/ \E args \in Commands, timeout \in Timeouts, text \in BOOLEAN, sinkOk \in BOOLEAN :
         RunAdbCommand(args, timeout, text, sinkOk) /\ UNCHANGED appvars
    \/ \E rc \in ExitCodes, out \in ChildOutputs, err \in ChildOutputs :
         ChildExits(rc, out, err) /\ UNCHANGED appvars
    \/ TimeoutExpires /\ UNCHANGED appvars

SpecExec == InitExec /\ [][NextExec]_vars

----------------------------------------------------------------------------
\* the registry used from one thread (the UI thread), as the pages do
Next ==
    \/ \E kind \in HandleKinds, d \in Devices :
         Len(calls) < MaxCalls /\ SetCurrentDevice(Main, kind, d) /\ UNCHANGED appvars
    \/ \E kind \in HandleKinds :
         Len(calls) < MaxCalls /\ ClearCurrentDevice(Main, kind) /\ UNCHANGED appvars
    \/ NotifyListener(Main) /\ UNCHANGED appvars
    \/ Return(Main) /\ UNCHANGED appvars
    \/ \E l \in Listeners : AddListener(Main, l) /\ UNCHANGED appvars
    \/ \E l \in Listeners : RemoveListener(Main, l) /\ UNCHANGED appvars

Spec == Init /\ [][Next]_vars

\* three workers, each calling set_current_device once with its own device,
\* after two listeners were registered
InitConc ==
    /\ instance = device_manager
    /\ inst_current = [h \in Instances |-> Unset]
    /\ device_listeners = <<"l1", "l2">>
    /\ frame = [t \in Threads |-> Idle]
    /\ calls = <<>>
    /\ log = <<>>
    /\ lastReg = "none"
    /\ regOrder = <<"l1", "l2">>
    /\ platform = "win32"
    /\ InitExecutor
    /\ env = DevEnv
    /\ InitResolver
    /\ InitPages
    /\ InitTools

NotCalledYet(w) == \A c \in 1..Len(calls) : calls[c].t # w

NextConc ==
    \E w \in Workers :
        \/ NotCalledYet(w) /\ SetCurrentDevice(w, "module", WorkerDevice[w])
                            /\ UNCHANGED appvars
        \/ NotifyListener(w) /\ UNCHANGED appvars
        \/ Return(w) /\ UNCHANGED appvars

SpecConc == InitConc /\ [][NextConc]_vars

----------------------------------------------------------------------------
(* Reading the histories *)

\* the notifications of call c, in order
NotifsOf(c) == SelectSeq(log, LAMBDA e : e.id = c)

\* the listeners call c invoked, in order
ListenersNotified(c) == [i \in 1..Len(NotifsOf(c)) |-> NotifsOf(c)[i].l]

\* the values listener l received in the calls of set C, in order
ValuesTo(l, C) ==
    LET es == SelectSeq(log, LAMBDA e : e.l = l /\ e.id \in C)
    IN  [i \in 1..Len(es) |-> es[i].v]

\* the value call c is to leave in the slot and to broadcast
NewValue(c) == IF calls[c].op = "set" THEN calls[c].dev ELSE None

NoDup(s) == \A i, j \in 1..Len(s) : i # j => s[i] # s[j]
Elems(s) == {s[i] : i \in 1..Len(s)}
AllIdle == \A t \in Threads : frame[t].pc = "idle"

----------------------------------------------------------------------------
(* The registry used from one thread: claims C1-C5, C7 (specification Spec) *)

\* C1: set_current_device(A) directly followed by set_current_device(B): every
\* registered observer receives A and then B and nothing else (no empty value in
\* between), and get_current_device() afterwards returns B.
C1_SetThenSet ==
    \A c \in 1..(Len(calls) - 1) :
        ( /\ calls[c].op = "set" /\ calls[c+1].op = "set"
          /\ calls[c+1].done
          /\ calls[c].snap = calls[c+1].snap )
        => /\ \A l \in Elems(calls[c].snap) :
                 ValuesTo(l, {c, c+1}) = <<calls[c].dev, calls[c+1].dev>>
           /\ \A l \in Listeners \ Elems(calls[c].snap) : ValuesTo(l, {c, c+1}) = <<>>
           /\ calls[c+1].ret = calls[c+1].dev
           /\ (Len(calls) = c + 1 /\ AllIdle) =>
                 \A k \in HandleKinds : get_current_device(Handle(k)) = calls[c+1].dev

C1_Witness ==
    /\ Len(calls) = 2 /\ calls[2].done
    /\ calls[1].op = "set" /\ calls[2].op = "set"
    /\ calls[1].dev = "A" /\ calls[2].dev = "B"
    /\ calls[1].snap = calls[2].snap /\ Len(calls[1].snap) = 2
    /\ ValuesTo("l1", {1, 2}) = <<"A", "B">>

\* C2: a set_current_device(d) call has, when it returns, replaced the slot by d and
\* invoked every registered observer exactly once with d, in registration order.
C2_SetNotifiesAllInOrder ==
    \A c \in 1..Len(calls) :
        (calls[c].op = "set" /\ calls[c].done)
        => /\ calls[c].ret = calls[c].dev
           /\ ListenersNotified(c) = calls[c].order
           /\ \A i \in 1..Len(NotifsOf(c)) : NotifsOf(c)[i].v = calls[c].dev

C2_Witness ==
    \E c \in 1..Len(calls) :
        /\ calls[c].op = "set" /\ calls[c].done
        /\ calls[c].order = <<"l2", "l1">>
        /\ ListenersNotified(c) = <<"l2", "l1">>

\* C3: when an observer raises during a set or clear round, the other observers are
\* still notified in that round, the slot keeps the new value and the call returns
\* normally (no exception reaches the caller).
C3_RaisingObserverIsolated ==
    \A c \in 1..Len(calls) :
        ( /\ calls[c].done
          /\ \E i \in 1..Len(NotifsOf(c)) : NotifsOf(c)[i].o = "raise" )
        => /\ ListenersNotified(c) = calls[c].snap
           /\ ~calls[c].exc
           /\ calls[c].ret = NewValue(c)

C3_Witness ==
    \E c \in 1..Len(calls) :
        /\ calls[c].done /\ ~calls[c].exc
        /\ Len(NotifsOf(c)) = 2
        /\ NotifsOf(c)[1].o = "raise"
        /\ NotifsOf(c)[2].o = "ok"

\* C4: a clear_current_device() call leaves the slot empty and fires one round in
\* which every observer receives the empty value, also when the slot was empty before.
C4_ClearEmptiesAndNotifies ==
    \A c \in 1..Len(calls) :
        (calls[c].op = "clear" /\ calls[c].done)
        => /\ calls[c].ret = None
           /\ ListenersNotified(c) = calls[c].snap
           /\ \A i \in 1..Len(NotifsOf(c)) : NotifsOf(c)[i].v = None

C4_Witness ==
    \E c \in 1..Len(calls) :
        /\ calls[c].op = "clear" /\ calls[c].done
        /\ calls[c].prev = None
        /\ Len(calls[c].snap) = 2
        /\ Len(NotifsOf(c)) = 2

\* C5: each listener is in the observer list at most once (so a round invokes it at
\* most once); add_listener of a registered listener and remove_listener of an
\* unregistered one leave the list as it is.
C5_RegistrationIdempotent ==
    /\ NoDup(device_listeners)
    /\ \A l \in Listeners :
          /\ Contains(device_listeners, l) =>
                add_listener(device_listeners, l) = device_listeners
          /\ ~Contains(device_listeners, l) =>
                remove_listener(device_listeners, l) = device_listeners
    /\ \A c \in 1..Len(calls) : NoDup(ListenersNotified(c))

C5_Witness ==
    /\ lastReg = "add_registered"
    /\ Len(device_listeners) = 2
    /\ Len(calls) >= 1 /\ calls[1].done /\ Len(NotifsOf(1)) = 2

\* C7: there is one slot: every way to reach the registry reads the same value, at
\* most one instance holds a device, and outside a call the slot is empty or holds
\* the device of the most recent set.
C7_SingleSlot ==
    /\ \A k1, k2 \in HandleKinds :
          get_current_device(Handle(k1)) = get_current_device(Handle(k2))
    /\ Cardinality({h \in Instances : inst_current[h] \notin {None, Unset}}) <= 1
    /\ (Len(calls) > 0) =>
          \A k \in HandleKinds : get_current_device(Handle(k)) = NewValue(Len(calls))

C7_Witness ==
    /\ Len(calls) = 2 /\ AllIdle
    /\ calls[1].op = "set" /\ calls[2].op = "set" /\ calls[1].dev # calls[2].dev
    /\ get_current_device(Handle("ctor")) = calls[2].dev
    /\ get_current_device(Handle("module")) = calls[2].dev

----------------------------------------------------------------------------
(* The registry used from several threads: claim C6 (specification SpecConc) *)

AllCalls == 1..Len(calls)

\* C6: when the workers' concurrent set_current_device calls have all returned, the
\* notification rounds of two calls did not interleave, every observer received the
\* devices in the same order, and get_current_device() is one of the devices set.
C6_ConcurrentSetsSerialized ==
    (Len(calls) = Cardinality(Workers) /\ \A c \in AllCalls : calls[c].done)
    => /\ \A i, j, k \in 1..Len(log) :
             (i < j /\ j < k /\ log[i].id = log[k].id) => log[j].id = log[i].id
       /\ ValuesTo("l1", AllCalls) = ValuesTo("l2", AllCalls)
       /\ get_current_device(device_manager) \in {WorkerDevice[w] : w \in Workers}

----------------------------------------------------------------------------
(* run_adb_command: claims C8-C10 (specification SpecExec) *)

HasKey(r, k) == k \in DOMAIN r

\* C8: an invocation whose child does not exit within the timeout returns a result
\* with success false, an error that carries the timeout duration, and no exit code,
\* and its child has been killed.
C8_TimeoutResult ==
    ex.outcome = "timeout"
    => /\ ex.pc = "returned"
       /\ result.success = FALSE
       /\ HasKey(result, "error")
       /\ HasKey(result.error, "seconds") /\ result.error.seconds = ex.timeout
       /\ ~HasKey(result, "returncode")
       /\ child.st = "killed"

C8_Witness ==
    /\ ex.outcome = "timeout" /\ ex.pc = "returned"
    /\ ex.timeout = 5 /\ child.st = "killed"

\* C9: a spawn failure, a timeout and a non-zero exit never leave run_adb_command as
\* an exception: each is returned as a result record; for a spawn failure the record
\* has success false, an error and no exit code.
C9_FailuresAreResults ==
    /\ ( \/ ex.outcome \in {"spawn", "timeout"}
         \/ (child.st = "exited" /\ child.rc # 0) )
       => (ex.pc = "returned" /\ HasKey(result, "success"))
    /\ ex.outcome = "spawn"
       => /\ result.success = FALSE
          /\ HasKey(result, "error") /\ result.error.kind \in SpawnErrors
          /\ ~HasKey(result, "returncode")
          /\ child.st = "none"

C9_Witness ==
    /\ ex.outcome = "spawn" /\ ex.pc = "returned"
    /\ result.error.kind = "PermissionError"

\* C10: the returned success field is true exactly when the child ran and exited
\* with code zero, and the exit code is missing from the result only when the
\* process never started or was killed by the timeout.
C10_SuccessIffExitZero ==
    ex.pc = "returned"
    => /\ result.success <=> (child.st = "exited" /\ child.rc = 0)
       /\ ~HasKey(result, "returncode") => child.st \in {"none", "killed"}

\* C11: the output mode is exclusive, and binary mode is lossless: stdout and stderr
\* of one result have the same type, bytes with text=False and str with text=True,
\* and with text=False they are exactly what the child wrote.
C11_ModeExclusiveLossless ==
    (ex.pc = "returned" /\ HasKey(result, "stdout"))
    => /\ result.stdout.type = result.stderr.type
       /\ result.stdout.type = (IF ex.text THEN "str" ELSE "bytes")
       /\ ~ex.text => /\ result.stdout.data = child.out
                      /\ result.stderr.data = child.err

C11_Witness ==
    /\ ex.pc = "returned" /\ ~ex.text
    /\ child.st = "exited" /\ child.out = "binary" /\ child.err = "empty"
    /\ result.stdout = [type |-> "bytes", data |-> "binary"]
    /\ result.stderr = [type |-> "bytes", data |-> "empty"]

\* C12: in text mode output that is no valid text causes no error: a child that
\* exits with code zero after writing such bytes yields success true and its exit code.
C12_TextModeTolerant ==
    ( /\ ex.pc \in {"returned", "raised"} /\ ex.text
      /\ child.st = "exited" /\ child.rc = 0
      /\ "binary" \in {child.out, child.err} )
    => /\ ex.pc = "returned"
       /\ result.success = TRUE
       /\ HasKey(result, "returncode") /\ result.returncode = 0
       /\ ~HasKey(result, "error")

\* C19: the diagnostic output is informational only: a call whose diagnostic line
\* cannot be written still executes the command and returns a result record.
C19_DiagnosticsInformational ==
    ex.outcome = "sink" => (ex.pc # "raised" /\ child.st # "none")

----------------------------------------------------------------------------
(* The resolver's claims *)

\* the resolutions that ran to their end
Resolutions == {i \in DOMAIN dirs : dirs[i].staged # "pending"}

\* the order the specification gives: bundled resources of a frozen build, the adb
\* directory next to the program, the one of the working directory, the search path
SpecOrder == <<"meipass", "exedir", "cwd", "path">>

FirstInSpecOrder(e) ==
    LET holds == {k \in 1..Len(SpecOrder) : e[SpecOrder[k]] = "binary"} IN
    IF holds = {} THEN "failed"
    ELSE SpecOrder[CHOOSE k \in holds : \A j \in holds : k <= j]

\* C13: the bridge is started only after a resolution succeeded.
C13_NoSpawnUnresolved ==
    spawned.started => spawned.resolved

\* C14: a resolution stages the binary of the first location, in the order bundled
\* resources, program directory, working directory, search path, that holds one.
C14_StrictOrder ==
    \A i \in Resolutions : dirs[i].staged = FirstInSpecOrder(env)

\* C15: when exactly one location holds a usable binary, the resolution succeeds
\* and stages the binary of that location.
C15_SingleCandidateFound ==
    \A i \in Resolutions :
        \A l \in Locations :
            {k \in Locations : env[k] = "binary"} = {l} => dirs[i].staged = l

\* C16: between two cleanups at most one resolution succeeds, and every
\* get_adb_manager call returns the manager of that resolution.
C16_ResolvedOnce ==
    /\ resolvedSince <= 1
    /\ \A t \in Getters :
         (getter[t].ret # NoManager /\ adb_manager # NoManager)
         => getter[t].ret = adb_manager \/ ~dirs[getter[t].ret].exists

\* C17: once the application is closed, the staged directory is removed.
C17_StagedDirRemovedAtShutdown ==
    app = "closed" => \A i \in StagedDirs : ~dirs[i].exists

----------------------------------------------------------------------------
(* A page's worker thread and its cancellation *)

\* start_scan / start_installation from their buttons, which are disabled while a
\* worker runs: a QThread is created and started
StartWorker ==
    /\ worker.st \notin {"running", "aborted"}
    /\ worker' = [st |-> "running"]
    /\ ex' = ExIdle /\ child' = NoChild /\ result' = NoResult
    /\ UNCHANGED <<regvars, platform, orphan, unreferenced, resvars, uivars, toolvars>>

MaxUnreferenced == 2

\* on_activated, lines 443-447, while a scan runs: start_scan assigns a new
\* DeviceScanner to self.scanner and starts it. The running scanner loses its only
\* reference: either it runs on where neither stop_scan nor cleanup reaches it,
\* or Qt aborts the process when the running QThread is destroyed.
PageActivated ==
    /\ worker.st = "running"
    /\ \/ /\ unreferenced < MaxUnreferenced
          /\ unreferenced' = unreferenced + 1
          /\ worker' = [st |-> "running"]
       \/ /\ worker' = [st |-> "aborted"]
          /\ unreferenced' = unreferenced
    /\ ex' = ExIdle /\ child' = NoChild /\ result' = NoResult
    /\ UNCHANGED <<regvars, platform, orphan, resvars, uivars, toolvars>>

\* a scanner that lost its reference comes to the end of its run
UnreferencedFinishes ==
    /\ worker.st # "aborted"
    /\ unreferenced > 0
    /\ unreferenced' = unreferenced - 1
    /\ UNCHANGED <<regvars, platform, exvars, worker, orphan, resvars, uivars, toolvars>>

\* DeviceScanner.run / InstallWorker.run come to their end
WorkerFinishes ==
    /\ worker.st = "running"
    /\ ex.pc \in {"returned", "raised"}
    /\ worker' = [st |-> "finished"]
    /\ UNCHANGED <<regvars, platform, exvars, orphan, unreferenced, resvars, uivars,
                   toolvars>>

\* stop_scan / stop_installation / cleanup: terminate() ends the thread, wait()
\* returns. The thread was the one waiting in subprocess.run: nothing is left to
\* kill the child when the timeout expires.
StopWorker ==
    /\ worker.st = "running"
    /\ worker' = [st |-> "terminated"]
    /\ orphan' = IF ex.pc = "waiting" THEN "running" ELSE orphan
    /\ ex' = ExIdle /\ child' = NoChild /\ result' = NoResult
    /\ UNCHANGED <<regvars, platform, unreferenced, resvars, uivars, toolvars>>

\* the child of a terminated worker may come to its end by itself
OrphanExits ==
    /\ orphan = "running"
    /\ orphan' = "exited"
    /\ UNCHANGED <<regvars, platform, exvars, worker, unreferenced, resvars, uivars,
                   toolvars>>

NextWorker ==
    \/ StartWorker
    \/ \E args \in Commands, timeout \in Timeouts, sinkOk \in BOOLEAN :
         /\ worker.st = "running" /\ ex.pc = "idle"
         /\ RunAdbCommand(args, timeout, TRUE, sinkOk) /\ UNCHANGED appvars
    \/ \E rc \in ExitCodes, out \in ChildOutputs, err \in ChildOutputs :
         worker.st = "running" /\ ChildExits(rc, out, err) /\ UNCHANGED appvars
    \/ worker.st = "running" /\ TimeoutExpires /\ UNCHANGED appvars
    \/ WorkerFinishes
    \/ StopWorker
    \/ OrphanExits
    \/ PageActivated
    \/ UnreferencedFinishes

SpecWorker == Init /\ [][NextWorker]_vars

\* C18: when the foreground cancels a worker, the bridge child the worker had
\* started does not stay running with nothing left to end it.
C18_CancelEndsChild ==
    orphan # "running"

----------------------------------------------------------------------------
(* Connecting a device from the UI thread *)

DeviceTypes == {"USB", "network", "manual"}     \* device['type']
NetworkTypes == {"network", "manual"}           \* the types that need `adb connect`
UiDevices == [serial : Devices, type : DeviceTypes]
\* what the handler reads from the result of `connect`: result['success'] and
\* whether "connected" is in result.get('stdout', '') (a timeout has no stdout)
ConnectResults == [success : BOOLEAN, connected : BOOLEAN]
\* what the handler reads from the result of `devices`: result['success'] and
\* whether the serial and "device" are in the output
ListResults == [success : BOOLEAN, listed : BOOLEAN]

\* a handler that trusts the exit code alone
ConnectAccepted_exitonly(r) == r.success

\* result['success'] and "connected" in result.get('stdout', '')
ConnectAccepted(r) == r.success /\ r.connected

UiStart(win, serial, type, connected) ==
    [pc |-> "done", win |-> win, serial |-> serial, type |-> type,
     connected |-> connected, calls0 |-> Len(calls), log0 |-> Len(log),
     cur0 |-> get_current_device(device_manager)]

\* SimplifiedMainWindow.connect_device: the address typed in is a network target.
\* raises: get_adb_manager or run_adb_command raised, the handler's except logs it
ConnectDevice(ip, r, raises) ==
    /\ ui.pc \in {"idle", "done"}
    /\ frame[Main].pc = "idle"
    /\ Len(calls) < MaxCalls
    /\ LET u == UiStart("simplified", ip, "network",
                        ~raises /\ r.success /\ r.connected) IN
       IF ~raises /\ ConnectAccepted(r)
       THEN /\ SetCurrentDevice(Main, "module", ip)
            /\ ui' = [u EXCEPT !.pc = "set"]
       ELSE /\ ui' = u
            /\ UNCHANGED <<regvars, platform, exvars>>
    /\ UNCHANGED <<resvars, wkvars, toolvars>>

\* DeviceConnectPage.connect_to_device up to its set_current_device: disconnect,
\* connect for the network and manual types, then the `devices` listing
ConnectToDevice(device, r, l, raises) ==
    /\ ui.pc \in {"idle", "done"}
    /\ frame[Main].pc = "idle"
    /\ Len(calls) < MaxCalls
    /\ LET needsConnect == device.type \in NetworkTypes
           u == UiStart("page", device.serial, device.type,
                        needsConnect /\ ~raises /\ r.success /\ r.connected) IN
       IF /\ ~raises
          /\ needsConnect => ConnectAccepted(r)
          /\ l.success /\ l.listed
       THEN /\ SetCurrentDevice(Main, "module", device.serial)
            /\ ui' = [u EXCEPT !.pc = "set"]
       ELSE /\ ui' = u
            /\ UNCHANGED <<regvars, platform, exvars>>
    /\ UNCHANGED <<resvars, wkvars, toolvars>>

\* the end of connect_to_device: update_device_info reads the model and, when that
\* command succeeds, sets the device again under its new name
UpdateDeviceInfo(m) ==
    /\ ui.pc = "set" /\ ui.win = "page"
    /\ frame[Main].pc = "idle"
    /\ m => Len(calls) < MaxCalls
    /\ IF m
       THEN /\ SetCurrentDevice(Main, "module", ui.serial)
            /\ ui' = [ui EXCEPT !.pc = "updated"]
       ELSE /\ ui' = [ui EXCEPT !.pc = "done"]
            /\ UNCHANGED <<regvars, platform, exvars>>
    /\ UNCHANGED <<resvars, wkvars, toolvars>>

\* the handler returns to the event loop
HandlerReturns ==
    /\ \/ ui.pc = "set" /\ ui.win = "simplified"
       \/ ui.pc = "updated"
    /\ frame[Main].pc = "idle"
    /\ ui' = [ui EXCEPT !.pc = "done"]
    /\ UNCHANGED <<regvars, platform, exvars, resvars, wkvars, toolvars>>

\* the window registered its on_device_changed when it was set up
InitUi ==
    /\ instance = device_manager
    /\ inst_current = [h \in Instances |-> Unset]
    /\ device_listeners = <<"l1">>
    /\ frame = [t \in Threads |-> Idle]
    /\ calls = <<>>
    /\ log = <<>>
    /\ lastReg = "none"
    /\ regOrder = <<"l1">>
    /\ platform = "win32"
    /\ InitExecutor
    /\ env = DevEnv
    /\ InitResolver
    /\ InitPages
    /\ InitTools

NextUi ==
    \/ \E ip \in Devices, r \in ConnectResults, raises \in BOOLEAN :
         ConnectDevice(ip, r, raises)
    \/ \E device \in UiDevices, r \in ConnectResults, l \in ListResults, raises \in BOOLEAN :
         ConnectToDevice(device, r, l, raises)
    \/ \E m \in BOOLEAN : UpdateDeviceInfo(m)
    \/ HandlerReturns
    \/ NotifyListener(Main) /\ UNCHANGED appvars
    \/ Return(Main) /\ UNCHANGED appvars

SpecUi == InitUi /\ [][NextUi]_vars

\* C20: a network target is made the active device only after the connect command
\* for its serial returned success with "connected" in its output; when that command
\* fails, times out or lacks "connected", the handler leaves the registry as it
\* was and no listener is called.
C20_NetworkActiveOnlyAfterConnect ==
    ui.type \in NetworkTypes
    => /\ Len(calls) > ui.calls0
          => /\ ui.connected
             /\ \A c \in (ui.calls0 + 1)..Len(calls) :
                  calls[c].op = "set" /\ calls[c].dev = ui.serial
       /\ ~ui.connected
          => /\ Len(calls) = ui.calls0
             /\ Len(log) = ui.log0
             /\ get_current_device(device_manager) = ui.cur0

C20_Witness ==
    /\ ui.pc = "done" /\ ui.type = "manual" /\ ui.connected
    /\ Len(calls) > ui.calls0
    /\ Len(log) > ui.log0
    /\ get_current_device(device_manager) = ui.serial

----------------------------------------------------------------------------
(* Installing packages *)

MaxApks == 2
InstallKinds == {"exit", "timeout", "spawn"}
\* the standard output of `adb install`: what kind of bytes, and whether the
\* word Success is among them
InstallOutputs ==
    {[data |-> "empty", hasSuccess |-> FALSE]}
    \cup [data : {"text", "binary"}, hasSuccess : BOOLEAN]
\* how one `adb install` ends: the child exits, the timeout expires, or the
\* executable cannot be started
InstallOutcomes ==
    [kind : {"exit"}, rc : ExitCodes, out : InstallOutputs]
    \cup {[kind |-> k, rc |-> 1, out |-> [data |-> "empty", hasSuccess |-> FALSE]] :
            k \in {"timeout", "spawn"}}

\* `"Success" in stdout` of a captured text stream; a stream that is None makes
\* the `in` raise TypeError, which the caller's except turns into a failure
SuccessIn(cap, o) == cap.type = "str" /\ o.out.data # "empty" /\ o.out.hasSuccess

\* InstallWorker.install_apk, lines 85-98: subprocess.run(text=True, timeout=60)
install_apk(o, plat) ==
    /\ o.kind = "exit"
    /\ o.rc = 0
    /\ SuccessIn(Capture(TRUE, plat, o.out.data), o)

\* SimplifiedMainWindow.install_apk, lines 382-394, through run_adb_command
window_install_apk(o, plat) ==
    /\ o.kind = "exit"
    /\ Capture(TRUE, plat, o.out.data).type # "UnicodeDecodeError"
    /\ o.rc = 0
    /\ SuccessIn(Capture(TRUE, plat, o.out.data), o)

\* a loop that gives up at the first failure
NextApk_stop(i, n, ok) == IF ok THEN i + 1 ELSE n + 1

\* for i, apk_file in enumerate(self.apk_files): the next one, whatever happened
NextApk(i, n, ok) == i + 1

\* every attempt of the run succeeded
AllInstalled(results) == \A k \in 1..Len(results) : results[k]

\* start_installation, lines 260-291: refuses an empty list, starts the worker
StartInstallation(n) ==
    /\ iw.pc # "running"
    /\ iw' = [NoInstallWorker EXCEPT !.pc = "running", !.n = n, !.i = 1]
    /\ UNCHANGED <<regvars, platform, exvars, resvars, wkvars, uivars,
                   inst, shot, lst, window, cb>>

\* one iteration of the loop in InstallWorker.run, lines 42-56
InstallNext(o) ==
    /\ iw.pc = "running"
    /\ iw.i <= iw.n
    /\ LET ok == install_apk(o, platform) IN
       /\ iw' = [iw EXCEPT !.attempts = Append(@, iw.i),
                           !.results = Append(@, ok),
                           !.i = NextApk(iw.i, iw.n, ok)]
       /\ inst' = [by |-> "worker", o |-> o, reported |-> ok]
    /\ UNCHANGED <<regvars, platform, exvars, resvars, wkvars, uivars,
                   shot, lst, window, cb>>

\* the end of InstallWorker.run, lines 58-64: install_finished is emitted
FinishInstallation ==
    /\ iw.pc = "running"
    /\ iw.i > iw.n
    /\ iw' = [iw EXCEPT !.pc = "finished", !.finished = @ + 1,
                        !.finishedOk = (Len(SelectSeq(iw.results, LAMBDA b : b)) = iw.n)]
    /\ UNCHANGED <<regvars, platform, exvars, resvars, wkvars, uivars,
                   inst, shot, lst, window, cb>>

\* stop_installation, lines 298-309: the worker is terminated
StopInstallation ==
    /\ iw.pc = "running"
    /\ iw' = [iw EXCEPT !.pc = "terminated"]
    /\ UNCHANGED <<regvars, platform, exvars, resvars, wkvars, uivars,
                   inst, shot, lst, window, cb>>

\* SimplifiedMainWindow.install_apk with a device connected and a file chosen
WindowInstallApk(o) ==
    /\ inst' = [by |-> "window", o |-> o, reported |-> window_install_apk(o, platform)]
    /\ UNCHANGED <<regvars, platform, exvars, resvars, wkvars, uivars,
                   iw, shot, lst, window, cb>>

NextInstall ==
    \/ \E n \in 1..MaxApks : StartInstallation(n)
    \/ \E o \in InstallOutcomes : InstallNext(o)
    \/ FinishInstallation
    \/ StopInstallation
    \/ \E o \in InstallOutcomes : WindowInstallApk(o)

SpecInstall == InitExec /\ [][NextInstall]_vars

\* C21: an install is reported as successful exactly when the install command
\* exited with code zero and Success is in its standard output.
C21_InstallSuccessIff ==
    inst.by # "none"
    => (inst.reported <=> /\ inst.o.kind = "exit"
                          /\ inst.o.rc = 0
                          /\ inst.o.out.hasSuccess)

\* C30: a run that is not cancelled attempts every package once, in order,
\* whatever happened to the earlier ones, and then emits install_finished once,
\* with success exactly when every package was installed.
C30_EveryApkAttemptedOnce ==
    /\ iw.finished <= 1
    /\ iw.pc = "finished"
       => /\ iw.attempts = [k \in 1..iw.n |-> k]
          /\ Len(iw.results) = iw.n
          /\ iw.finished = 1
          /\ iw.finishedOk <=> AllInstalled(iw.results)
    /\ iw.pc = "running" => iw.attempts = [k \in 1..(iw.i - 1) |-> k]

C30_Witness ==
    /\ iw.pc = "finished" /\ iw.n = 2
    /\ iw.attempts = <<1, 2>>
    /\ iw.results = <<FALSE, TRUE>>
    /\ iw.finished = 1 /\ ~iw.finishedOk

----------------------------------------------------------------------------
(* Screen capture: finding the image in the bytes received *)

MaxGarbage == 2
MaxBody == 1
\* b'\x89PNG\r\n\x1a\n'
PngHeader == <<137, 80, 78, 71, 13, 10, 26, 10>>
GarbageBytes == {0, 10, 137}
BodyBytes == {0, 73}

SeqsUpTo(S, n) == UNION {[1..k -> S] : k \in 0..n}

\* what `screencap -p` may deliver: some bytes, then nothing, an image, or an
\* image whose body holds the header bytes again
CaptureOutputs ==
    {g \o t : g \in SeqsUpTo(GarbageBytes, MaxGarbage),
              t \in {<<>>}
                    \cup {PngHeader \o b : b \in SeqsUpTo(BodyBytes, MaxBody)}
                    \cup {PngHeader \o b \o PngHeader : b \in SeqsUpTo(BodyBytes, MaxBody)}}

NoPayload == [some |-> FALSE, bytes |-> <<>>]
Payload(bytes) == [some |-> TRUE, bytes |-> bytes]

StartsAt(data, pat, k) ==
    /\ k + Len(pat) - 1 <= Len(data)
    /\ \A j \in 1..Len(pat) : data[k + j - 1] = pat[j]

\* bytes.find(pat): the lowest index (from 0) where pat starts, -1 when there is none
find(data, pat) ==
    LET at == {k \in 1..Len(data) : StartsAt(data, pat, k)} IN
    IF at = {} THEN -1
    ELSE (CHOOSE k \in at : \A j \in at : k <= j) - 1

\* SimplifiedMainWindow.take_screenshot, method 1, lines 412-430:
\* self.screenshot_data = screenshot_data[png_start:]
window_payload(rc, data) ==
    IF rc = 0 /\ data # <<>> /\ find(data, PngHeader) # -1
    THEN Payload(SubSeq(data, find(data, PngHeader) + 1, Len(data)))
    ELSE NoPayload

\* ScreenMirrorManager._capture_screen / take_screenshot, lines 89-122: the bytes
\* received are returned and written to the file as they are
mirror_payload(rc, data) ==
    IF rc = 0 /\ data # <<>> THEN Payload(data) ELSE NoPayload

TakeScreenshot(rc, data) ==
    /\ shot' = [by |-> "window", rc |-> rc, data |-> data,
                payload |-> window_payload(rc, data)]
    /\ UNCHANGED <<regvars, platform, exvars, resvars, wkvars, uivars,
                   iw, inst, lst, window, cb>>

MirrorTakeScreenshot(rc, data) ==
    /\ shot' = [by |-> "mirror", rc |-> rc, data |-> data,
                payload |-> mirror_payload(rc, data)]
    /\ UNCHANGED <<regvars, platform, exvars, resvars, wkvars, uivars,
                   iw, inst, lst, window, cb>>

NextShot ==
    \/ \E rc \in ExitCodes, data \in CaptureOutputs : TakeScreenshot(rc, data)
    \/ \E rc \in ExitCodes, data \in CaptureOutputs : MirrorTakeScreenshot(rc, data)

SpecShot == Init /\ [][NextShot]_vars

\* the bytes from the first occurrence of the header to the end, when it occurs
FromFirstHeader(data) ==
    IF \E k \in 1..Len(data) : StartsAt(data, PngHeader, k)
    THEN LET k == CHOOSE i \in 1..Len(data) :
                    /\ StartsAt(data, PngHeader, i)
                    /\ \A j \in 1..(i - 1) : ~StartsAt(data, PngHeader, j)
         IN  Payload([j \in 1..(Len(data) - k + 1) |-> data[k + j - 1]])
    ELSE NoPayload

\* C22: from the output of a capture that exited with zero, the caller keeps
\* exactly the bytes from the first occurrence of the 8-byte header to the end,
\* and keeps nothing when the header does not occur.
C22_PayloadFromHeader ==
    (shot.by # "none" /\ shot.rc = 0) => shot.payload = FromFirstHeader(shot.data)

----------------------------------------------------------------------------
(* connect_to_device: is the target in the `devices` listing? *)

MaxLines == 2
\* text as a sequence of characters; TAB and NL stand for "\t" and "\n"
DeviceWord == <<"d", "e", "v", "i", "c", "e">>
OfflineWord == <<"o", "f", "f", "l", "i", "n", "e">>
UnauthorizedWord == <<"u", "n", "a", "u", "t", "h", "o", "r", "i", "z", "e", "d">>
ListingHeader ==
    <<"L", "i", "s", "t", " ", "o", "f", " ">> \o DeviceWord
    \o <<"s", " ", "a", "t", "t", "a", "c", "h", "e", "d", "NL">>
Serials == {<<"1">>, <<"1", "2">>, <<"2">>}
Statuses == {DeviceWord, OfflineWord, UnauthorizedWord}
ListingLines == [serial : Serials, status : Statuses]
Listings == SeqsUpTo(ListingLines, MaxLines)

RECURSIVE ListingText(_)
\* the standard output of `adb devices`: the header, then "<serial>\t<status>\n"
ListingText(lines) ==
    IF lines = <<>> THEN ListingHeader
    ELSE ListingText(SubSeq(lines, 1, Len(lines) - 1))
         \o lines[Len(lines)].serial \o <<"TAB">> \o lines[Len(lines)].status \o <<"NL">>

\* Python's `x in text` for strings
InText(x, text) == find(text, x) # -1

\* lines 361-368: result['success'], then
\* device['serial'] in devices_output and 'device' in devices_output
page_listed(serial, success, text) ==
    success /\ InText(serial, text) /\ InText(DeviceWord, text)

CheckListing(serial, success, lines) ==
    /\ lst' = [checked |-> TRUE, serial |-> serial, success |-> success, lines |-> lines,
               accepted |-> page_listed(serial, success, ListingText(lines))]
    /\ UNCHANGED <<regvars, platform, exvars, resvars, wkvars, uivars,
                   iw, inst, shot, window, cb>>

NextList ==
    \E serial \in Serials, success \in BOOLEAN, lines \in Listings :
        CheckListing(serial, success, lines)

SpecList == Init /\ [][NextList]_vars

\* C29: connect_to_device goes on to set the active device only if the listing
\* has a line whose serial is the target's and whose status is `device`.
C29_ListedAsDevice ==
    (lst.checked /\ lst.accepted)
    => \E k \in 1..Len(lst.lines) :
          lst.lines[k].serial = lst.serial /\ lst.lines[k].status = DeviceWord

\* C27: at most one scanner started by the page is running, and it is the one the
\* page refers to: the reference to a running scanner is never replaced.
C27_OneReferencedScanner ==
    unreferenced = 0 /\ worker.st # "aborted"

\* C28: while no resolution is in progress, every staged directory that exists
\* is the one of the cached manager: a failed resolution and racing first calls
\* leave no other directory behind.
C28_NoOrphanedStagedDir ==
    (\A t \in Getters : getter[t].pc # "constructing")
    => \A i \in DOMAIN dirs : dirs[i].exists => i = adb_manager

----------------------------------------------------------------------------
(* SimplifiedMainWindow: its view of the registry *)

WindowListener == "l1"         \* self.on_device_changed, registered at line 290

\* a callback that forgets the buttons
on_device_changed_nobuttons(w, device_info) ==
    [w EXCEPT !.current_device = device_info]

\* on_device_changed, lines 292-305
on_device_changed(w, device_info) ==
    IF device_info # None
    THEN [w EXCEPT !.current_device = device_info,
                   !.connect_button = FALSE, !.disconnect_button = TRUE]
    ELSE [w EXCEPT !.current_device = None,
                   !.connect_button = TRUE, !.disconnect_button = FALSE]

\* the connect button is clicked: connect_device
WindowConnect(ip, r, raises) ==
    /\ window.open /\ window.connect_button
    /\ ConnectDevice(ip, r, raises)

\* the disconnect button is clicked: disconnect_device, lines 335-353.
\* ok: `adb disconnect` came back with result['success']
WindowDisconnect(ok, raises) ==
    /\ window.open /\ window.disconnect_button
    /\ ui.pc \in {"idle", "done"}
    /\ frame[Main].pc = "idle"
    /\ LET u == UiStart("disconnect", window.current_device, "none", FALSE) IN
       IF window.current_device # None /\ ~raises /\ ok
       THEN /\ Len(calls) < MaxCalls
            /\ ClearCurrentDevice(Main, "module")
            /\ ui' = [u EXCEPT !.pc = "clearing"]
       ELSE /\ ui' = u
            /\ UNCHANGED <<regvars, platform, exvars>>
    /\ UNCHANGED <<resvars, wkvars, toolvars>>

\* disconnect_device returns to the event loop
DisconnectReturns ==
    /\ ui.pc = "clearing"
    /\ frame[Main].pc = "idle"
    /\ ui' = [ui EXCEPT !.pc = "done"]
    /\ UNCHANGED <<regvars, platform, exvars, resvars, wkvars, toolvars>>

\* one iteration of the registry's loop; when the listener invoked is the
\* window's, on_device_changed runs (it returns normally)
WindowNotify ==
    /\ NotifyListener(Main)
    /\ LET e == log'[Len(log')] IN
       IF e.l = WindowListener
       THEN e.o = "ok" /\ window' = on_device_changed(window, e.v)
       ELSE window' = window
    /\ UNCHANGED <<resvars, wkvars, uivars, iw, inst, shot, lst, cb>>

\* closeEvent, lines 559-570: remove_listener, then clear_current_device when
\* the window holds a device
CloseWindow ==
    /\ window.open
    /\ ui.pc \in {"idle", "done"}
    /\ frame[Main].pc = "idle"
    /\ window' = [window EXCEPT !.open = FALSE]
    /\ device_listeners' = remove_listener(device_listeners, WindowListener)
    /\ regOrder' = SelectSeq(regOrder, LAMBDA x : x # WindowListener)
    /\ IF window.current_device # None
       THEN /\ Len(calls) < MaxCalls
            /\ inst_current' = ClearSlot(device_manager)
            /\ frame' = [frame EXCEPT ![Main] =
                  [pc |-> "loop", op |-> "clear", dev |-> None, i |-> 1,
                   id |-> Len(calls) + 1, h |-> device_manager]]
            /\ calls' = Append(calls,
                  [op |-> "clear", dev |-> None, t |-> Main, h |-> device_manager,
                   prev |-> get_current_device(device_manager),
                   snap |-> device_listeners', order |-> regOrder',
                   done |-> FALSE, exc |-> FALSE, ret |-> None])
            /\ lastReg' = "none"
       ELSE /\ lastReg' = IF Contains(device_listeners, WindowListener)
                          THEN "remove" ELSE "remove_unregistered"
            /\ UNCHANGED <<inst_current, frame, calls>>
    /\ UNCHANGED <<instance, log, platform, exvars, resvars, wkvars, uivars,
                   iw, inst, shot, lst, cb>>

NextWin ==
    \/ \E ip \in Devices, r \in ConnectResults, raises \in BOOLEAN :
         WindowConnect(ip, r, raises)
    \/ \E ok \in BOOLEAN, raises \in BOOLEAN : WindowDisconnect(ok, raises)
    \/ HandlerReturns
    \/ DisconnectReturns
    \/ WindowNotify
    \/ Return(Main) /\ UNCHANGED appvars
    \/ CloseWindow
    \/ \E l \in Listeners \ {WindowListener} : AddListener(Main, l) /\ UNCHANGED appvars
    \/ \E l \in Listeners \ {WindowListener} : RemoveListener(Main, l) /\ UNCHANGED appvars

\* the window's listener is registered; another observer may have registered before
InitWin ==
    /\ instance = device_manager
    /\ inst_current = [h \in Instances |-> Unset]
    /\ device_listeners \in {<<WindowListener>>, <<"l2", WindowListener>>}
    /\ regOrder = device_listeners
    /\ frame = [t \in Threads |-> Idle]
    /\ calls = <<>>
    /\ log = <<>>
    /\ lastReg = "none"
    /\ platform = "win32"
    /\ InitExecutor
    /\ env = DevEnv
    /\ InitResolver
    /\ InitPages
    /\ InitTools

SpecWin == InitWin /\ [][NextWin]_vars

\* C23: after an explicit disconnect of the active device, and after the window
\* was closed, the registry's slot is empty.
C23_EmptyAfterDisconnectOrShutdown ==
    /\ (ui.win = "disconnect" /\ ui.pc = "done")
       => get_current_device(device_manager) = None
    /\ (~window.open /\ frame[Main].pc = "idle")
       => get_current_device(device_manager) = None

\* C26: while the window's listener is registered and no round is in progress,
\* the window's current_device is the registry's device, the disconnect button is
\* enabled exactly when there is one and the connect button exactly when not.
C26_WindowMirrorsRegistry ==
    (Contains(device_listeners, WindowListener) /\ frame[Main].pc = "idle")
    => /\ window.current_device = get_current_device(device_manager)
       /\ window.disconnect_button <=> get_current_device(device_manager) # None
       /\ window.connect_button <=> get_current_device(device_manager) = None

C26_Witness ==
    /\ ui.win = "disconnect" /\ ui.pc = "done"
    /\ frame[Main].pc = "idle"
    /\ Contains(device_listeners, WindowListener)
    /\ window.current_device = "A"
    /\ window.disconnect_button /\ ~window.connect_button


----------------------------------------------------------------------------
(* Listeners that call back into the registry while a round is in progress:  *)
(* device_manager.py lines 41-45 iterate the live list _device_listeners,    *)
(* and lines 35-37, 51-53, 63-73 take no notice of a round in progress.      *)

\* what a callback may do to the registry before it returns
CallbackOps == {"add", "remove"}

\* the list after the callback's add_listener / remove_listener (lines 63-73)
listeners_after(s, op, l) ==
    IF op = "add" THEN add_listener(s, l) ELSE remove_listener(s, l)

\* one iteration of the loop whose listener calls add_listener(l) or
\* remove_listener(l) and returns: the list changes under the iterator, which
\* moves to the next index all the same
NotifyReentrant(t, op, l) ==
    LET f == frame[t] IN
    /\ f.pc = "loop"
    /\ f.i <= Len(device_listeners)
    /\ log' = Append(log, [id |-> f.id, l |-> device_listeners[f.i],
                           v |-> NotifyArg(f), o |-> "ok"])
    /\ device_listeners' = listeners_after(device_listeners, op, l)
    /\ cb' = Append(cb, [id |-> f.id, op |-> op, l |-> l])
    /\ frame' = [frame EXCEPT ![t] = Advance(f)]
    /\ regOrder' = IF op = "remove" THEN SelectSeq(regOrder, LAMBDA x : x # l)
                   ELSE IF \E i \in 1..Len(regOrder) : regOrder[i] = l
                        THEN regOrder ELSE regOrder \o <<l>>
    /\ UNCHANGED <<instance, inst_current, calls, lastReg, platform, exvars,
                   resvars, wkvars, uivars, iw, inst, shot, lst, window>>

\* the round a nested set_current_device(d) / clear_current_device() runs
\* before it returns to the callback: every listener of the list, in order
NestedRound(id, v) ==
    [j \in 1..Len(device_listeners) |->
        [id |-> id, l |-> device_listeners[j], v |-> v, o |-> "ok"]]

\* one iteration of the loop whose listener, on receiving a value, calls the
\* module-level set_current_device(d) (op "set") or clear_current_device()
\* (op "clear") with another value: the nested call assigns the slot and runs
\* its whole round (same thread), then the outer loop goes on with its own value
NotifyNested(t, op, d) ==
    LET f == frame[t]
        v == IF op = "set" THEN d ELSE None
        h == Handle("module")
    IN
    /\ f.pc = "loop"
    /\ f.i <= Len(device_listeners)
    /\ v # NotifyArg(f)
    /\ inst_current' = IF op = "set" THEN AssignSlot(h, d) ELSE ClearSlot(h)
    /\ calls' = Append(calls, [op |-> op, dev |-> v, t |-> t, h |-> h,
                               prev |-> get_current_device(h),
                               snap |-> device_listeners, order |-> regOrder,
                               done |-> TRUE, exc |-> FALSE, ret |-> v])
    /\ log' = Append(log, [id |-> f.id, l |-> device_listeners[f.i],
                           v |-> NotifyArg(f), o |-> "ok"])
              \o NestedRound(Len(calls) + 1, v)
    /\ frame' = [frame EXCEPT ![t] = Advance(f)]
    /\ lastReg' = "none"
    /\ UNCHANGED <<instance, device_listeners, regOrder, platform, exvars, appvars>>

NextReent ==
    \/ \E kind \in HandleKinds, d \in Devices :
         Len(calls) < MaxCalls /\ SetCurrentDevice(Main, kind, d) /\ UNCHANGED appvars
    \/ \E kind \in HandleKinds :
         Len(calls) < MaxCalls /\ ClearCurrentDevice(Main, kind) /\ UNCHANGED appvars
    \/ NotifyListener(Main) /\ UNCHANGED appvars
    \/ \E op \in CallbackOps, l \in Listeners : NotifyReentrant(Main, op, l)
    \/ \E d \in Devices : Len(calls) < MaxCalls /\ NotifyNested(Main, "set", d)
    \/ Len(calls) < MaxCalls /\ NotifyNested(Main, "clear", None)
    \/ Return(Main) /\ UNCHANGED appvars
    \/ \E l \in Listeners : AddListener(Main, l) /\ UNCHANGED appvars
    \/ \E l \in Listeners : RemoveListener(Main, l) /\ UNCHANGED appvars

SpecReent == Init /\ [][NextReent]_vars

\* the listeners a callback of round c removed while the round was in progress
RemovedDuring(c) ==
    {l \in Listeners : \E k \in 1..Len(cb) : cb[k] = [id |-> c, op |-> "remove", l |-> l]}

\* how many times round c invoked listener l
TimesInvoked(c, l) == Len(SelectSeq(log, LAMBDA e : e.id = c /\ e.l = l))

\* C24: in every finished round, each listener that was registered when the
\* round started and was not removed during it was invoked exactly once, also
\* when callbacks of the round called add_listener or remove_listener
C24_EachListenerOncePerRound ==
    \A c \in 1..Len(calls) :
        calls[c].done =>
            \A i \in 1..Len(calls[c].snap) :
                calls[c].snap[i] \notin RemovedDuring(c)
                => TimesInvoked(c, calls[c].snap[i]) = 1

\* the values listener l received, in order
DeliveredTo(l) == SelectSeq(log, LAMBDA e : e.l = l)

\* no invocation of l raised
NonRaising(l) == \A k \in 1..Len(log) : log[k].l = l => log[k].o = "ok"

\* C25: when no set or clear call is in progress, the value each registered
\* non-raising observer (registered before the last call) received last is the
\* value get_current_device() returns
C25_LastDeliveredIsCurrent ==
    (frame[Main].pc = "idle" /\ Len(calls) > 0)
    => \A l \in Listeners :
          (/\ Contains(device_listeners, l)
           /\ Contains(calls[Len(calls)].snap, l)
           /\ NonRaising(l)
           /\ Len(DeliveredTo(l)) > 0)
          => DeliveredTo(l)[Len(DeliveredTo(l))].v = get_current_device(device_manager)

====
